---------------------------- MODULE Spec2Model ----------------------------
(***************************************************************************)
(* A model of the LlamaParse client (src/src/index.ts): the constructor,   *)
(* and parseFile as the sequence of continuations between its awaits       *)
(* (upload, status polling with a timer after every check, result fetch).  *)
(* The server is the environment: it answers every request with a          *)
(* response drawn from a small set.                                         *)
(***************************************************************************)
EXTENDS Naturals, Sequences, FiniteSets, TLC

VARIABLES
    config,   \* the LlamaParseConfig handed to the constructor
    client,   \* the LlamaParse instance: Unconstructed, a thrown error, or {baseUrl, headers}
    pc,       \* per parseFile call: the await the call is suspended at
    jobId,    \* per call: the local const jobId (index.ts:67)
    status,   \* per call: the local let status (index.ts:69)
    trace,    \* per call: the requests issued, responses received and timers started, in order
    outcome   \* per call: the settlement of the promise parseFile returned

vars == <<config, client, pc, jobId, status, trace, outcome>>

-----------------------------------------------------------------------------
(* Bounds of the model. *)

\* The server answers PENDING to at most this many status checks of one call.
MaxPending == 2

\* The parseFile calls that may run on the one client instance.
Calls == {1, 2}

-----------------------------------------------------------------------------
(* JavaScript values. *)

\* The value undefined (an absent field); no string of the model equals it.
Undefined == "<undefined>"

\* !v for a string-or-undefined v.
Falsy(v) == v \in {Undefined, ""}

\* `${v}` for a string-or-undefined v.
TemplateString(v) == IF v = Undefined THEN "undefined" ELSE v

EmptyObject == [k \in {} |-> ""]

\* The property key of array index i.
IndexKey(i) == CASE i = 1 -> "0" [] i = 2 -> "1" [] OTHER -> "2"

\* The own enumerable string-keyed properties of a HeadersInit value, which is
\* what an object spread copies: the entries of a plain record, the indexed
\* elements of an array of pairs, nothing of a Headers instance or of undefined.
OwnEnumerableProperties(h) ==
    CASE h.form = "record" -> h.entries
      [] h.form = "array"  -> [k \in {IndexKey(i) : i \in DOMAIN h.pairs} |->
                                 h.pairs[CHOOSE i \in DOMAIN h.pairs : IndexKey(i) = k]]
      [] OTHER             -> EmptyObject

\* { ...base, ...src }: the properties of src are copied over those of base.
Spread(base, props) ==
    [k \in DOMAIN base \cup DOMAIN props |->
        IF k \in DOMAIN props THEN props[k] ELSE base[k]]

-----------------------------------------------------------------------------
(* The constructor, index.ts:50-59. *)

DefaultBaseUrl == "https://api.cloud.llamaindex.ai/api/parsing"

DefaultHeaders(apiKey) ==
    ("Authorization" :> ("Bearer " \o apiKey)) @@ ("accept" :> "application/json")

\* A variant that tests the key against undefined only.
ApiKeyMissingUndefinedOnly(cfg) == cfg.apiKey = Undefined

ApiKeyMissing(cfg) == Falsy(cfg.apiKey)

MergeHeaders(cfg) ==
    Spread(DefaultHeaders(cfg.apiKey), OwnEnumerableProperties(cfg.headers))

Unconstructed == [constructed |-> FALSE]

Constructor(cfg) ==
    IF ApiKeyMissing(cfg)
    THEN [constructed |-> FALSE, threw |-> "API key is required"]
    ELSE [constructed |-> TRUE,
          baseUrl |-> IF Falsy(cfg.baseUrl) THEN DefaultBaseUrl ELSE cfg.baseUrl,
          headers |-> MergeHeaders(cfg)]

NoHeaders == [form |-> "undefined"]
RecordHeaders(f) == [form |-> "record", entries |-> f]
ArrayHeaders(s) == [form |-> "array", pairs |-> s]
HeadersInstance(f) == [form |-> "Headers", entries |-> f]

\* The header name/value pairs the caller supplied, whatever the form.
CallerHeaders(h) ==
    CASE h.form = "record"  -> h.entries
      [] h.form = "Headers" -> h.entries
      [] h.form = "array"   -> [k \in {h.pairs[i][1] : i \in DOMAIN h.pairs} |->
                                  h.pairs[CHOOSE i \in DOMAIN h.pairs : h.pairs[i][1] = k][2]]
      [] OTHER              -> EmptyObject

HeaderInputs ==
    { NoHeaders,
      RecordHeaders("Authorization" :> "Custom"),
      RecordHeaders("x-trace" :> "1"),
      RecordHeaders(("accept" :> "text/plain") @@ ("x-trace" :> "1")),
      ArrayHeaders(<< <<"Authorization", "Custom">> >>),
      HeadersInstance("Authorization" :> "Custom") }

Configs ==
    [apiKey : {Undefined, "", "key-1"},
     baseUrl : {Undefined, "http://mock"},
     headers : HeaderInputs]

DefaultConfig == [apiKey |-> "key-1", baseUrl |-> Undefined, headers |-> NoHeaders]

-----------------------------------------------------------------------------
(* The events of a call's trace. *)

\* A variant whose result request leaves the headers out.
RequestResultBare(op, url) ==
    [type |-> "request", op |-> op, url |-> url,
     headers |-> IF op = "result" THEN EmptyObject ELSE client.headers]

Request(op, url) ==
    [type |-> "request", op |-> op, url |-> url, headers |-> client.headers]

Response(op, ok, statusText, body) ==
    [type |-> "response", op |-> op, ok |-> ok, statusText |-> statusText, body |-> body]

\* setTimeout(resolve, ms)
Timer(ms) == [type |-> "timer", ms |-> ms]

NoBody == [empty |-> TRUE]

\* The URLs of the three endpoints, as path segments after the base URL.
UploadUrl == <<client.baseUrl, "upload">>
StatusUrl(id) == <<client.baseUrl, "job", TemplateString(id)>>
ResultUrl(id) == <<client.baseUrl, "job", TemplateString(id), "result", "markdown">>

-----------------------------------------------------------------------------
(* What the server may answer. *)

ErrorTexts == {"Unauthorized", "Internal Server Error"}

JobStatuses == {"PENDING", "SUCCESS", "FAILED", "CANCELED"}

Metadata(pages) ==
    [credits_used |-> pages, job_credits_usage |-> pages, job_pages |-> pages,
     job_auto_mode_triggered_pages |-> 0, job_is_cache_hit |-> FALSE, credits_max |-> 1000]

UploadResponses ==
    { Response("upload", FALSE, t, NoBody) : t \in {"Unauthorized"} }
    \cup { Response("upload", TRUE, "OK", [id |-> i, status |-> s]) :
             i \in {Undefined, "", "job-1"}, s \in {"PENDING", "SUCCESS", "FAILED"} }

StatusResponses ==
    { Response("status", FALSE, t, NoBody) : t \in ErrorTexts }
    \cup { Response("status", TRUE, "OK", [status |-> s, error |-> e]) :
             s \in JobStatuses, e \in {Undefined, "bad scan", ""} }

ResultResponses ==
    { Response("result", FALSE, t, NoBody) : t \in {"Internal Server Error"} }
    \cup { Response("result", TRUE, "OK", [markdown |-> m, job_metadata |-> Metadata(1)]) :
             m \in {"# Title", ""} }

\* The smaller repertoire used when two calls run concurrently.
UploadResponsesConc ==
    { Response("upload", FALSE, "Unauthorized", NoBody) }
    \cup { Response("upload", TRUE, "OK", [id |-> i, status |-> "PENDING"]) :
             i \in {"job-1", "job-2"} }

StatusResponsesConc ==
    { Response("status", FALSE, "Internal Server Error", NoBody),
      Response("status", TRUE, "OK", [status |-> "PENDING", error |-> Undefined]),
      Response("status", TRUE, "OK", [status |-> "SUCCESS", error |-> Undefined]),
      Response("status", TRUE, "OK", [status |-> "FAILED", error |-> "bad scan"]) }

ResultResponsesConc ==
    { Response("result", FALSE, "Internal Server Error", NoBody),
      Response("result", TRUE, "OK", [markdown |-> "# Title", job_metadata |-> Metadata(1)]) }

-----------------------------------------------------------------------------
(* Reading a trace. *)

Indices(tr, type, op) ==
    {i \in DOMAIN tr : tr[i].type = type /\ tr[i].op = op}

Requests(tr, op) == Indices(tr, "request", op)
Responses(tr, op) == Indices(tr, "response", op)
Timers(tr) == {i \in DOMAIN tr : tr[i].type = "timer"}

\* The status checks of tr that the server answered with PENDING.
PendingAnswers(tr) ==
    {i \in Responses(tr, "status") : tr[i].ok /\ tr[i].body.status = "PENDING"}

-----------------------------------------------------------------------------
(* Promise settlements. *)

Unsettled == [state |-> "pending"]
\* A variant that keeps the markdown and drops the job metadata.
FulfilledMarkdownOnly(v) == [state |-> "fulfilled", value |-> [markdown |-> v.markdown]]
Fulfilled(v) == [state |-> "fulfilled", value |-> v]
Rejected(msg) == [state |-> "rejected", message |-> msg]

NoStatus == [undefined |-> TRUE]

-----------------------------------------------------------------------------
(* The error messages, index.ts:76, 99, 118, 136. *)

\* A variant that leaves the status text out.
UploadErrorNoText(resp) == "Upload failed"
UploadError(resp) == "Upload failed: " \o resp.statusText

StatusCheckError(resp) == "Status check failed: " \o resp.statusText

ResultFetchError(resp) == "Failed to get results: " \o resp.statusText

\* A variant that reports the status instead of the error.
ParseFailedErrorStatus(st) == "Parsing failed: " \o TemplateString(st.status)
ParseFailedError(st) == "Parsing failed: " \o TemplateString(st.error)

-----------------------------------------------------------------------------
(* parseFile, index.ts:66-80, one action per continuation. *)

\* The fixed delay after a status check, index.ts:72.
PollDelayMs == 1000

\* while (status.status === "PENDING"), index.ts:73
\* Variants: a loop that gives up after two attempts; a loop that repeats on
\* every status but SUCCESS.
LoopConditionMaxAttempts(p) ==
    status[p].status = "PENDING" /\ Cardinality(Requests(trace[p], "status")) < 2
LoopConditionNotSuccess(p) == status[p].status # "SUCCESS"
LoopCondition(p) == status[p].status = "PENDING"

\* if (status.status !== "SUCCESS") throw, index.ts:75
\* A variant that throws on FAILED only.
ParseFailedOnlyOnFailed(p) == status[p].status = "FAILED"
ParseFailed(p) == status[p].status # "SUCCESS"

\* The write of the local variable status, index.ts:71.
\* Variants: one that keeps status in a field of the instance, shared by all
\* calls; one that keeps the status field only.
StoreStatusOnly(p, body) ==
    [status EXCEPT ![p] = [status |-> body.status, error |-> Undefined]]
StoreStatusShared(p, body) == [q \in Calls |-> body]
StoreStatus(p, body) == [status EXCEPT ![p] = body]

Log(p, events) == [trace EXCEPT ![p] = trace[p] \o events]

Settle(p, result) ==
    /\ outcome' = [outcome EXCEPT ![p] = result]
    /\ pc' = [pc EXCEPT ![p] = "settled"]

\* new LlamaParse(config)
Construct ==
    /\ client = Unconstructed
    /\ client' = Constructor(config)
    /\ UNCHANGED <<config, pc, jobId, status, trace, outcome>>

\* parseFile(file) is called: uploadFile issues POST {baseUrl}/upload and awaits.
ParseFile(p) ==
    /\ client.constructed
    /\ pc[p] = "idle"
    /\ trace' = Log(p, <<Request("upload", UploadUrl)>>)
    /\ pc' = [pc EXCEPT ![p] = "upload"]
    /\ UNCHANGED <<config, client, jobId, status, outcome>>

\* A variant that uploads again after a failed upload.
UploadResponseRetry(p, resp) ==
    /\ pc[p] = "upload"
    /\ IF ~resp.ok
       THEN /\ Len(trace[p]) < 6
            /\ trace' = Log(p, <<resp, Request("upload", UploadUrl)>>)
            /\ UNCHANGED <<jobId, pc, outcome>>
       ELSE /\ jobId' = [jobId EXCEPT ![p] = resp.body.id]
            /\ trace' = Log(p, <<resp, Request("status", StatusUrl(resp.body.id))>>)
            /\ pc' = [pc EXCEPT ![p] = "status"]
            /\ UNCHANGED outcome
    /\ UNCHANGED <<config, client, status>>

\* A variant that trusts the status of the upload response: on SUCCESS it
\* fetches the result at once.
UploadResponseTrustStatus(p, resp) ==
    /\ pc[p] = "upload"
    /\ IF ~resp.ok
       THEN /\ trace' = Log(p, <<resp>>)
            /\ Settle(p, Rejected(UploadError(resp)))
            /\ UNCHANGED jobId
       ELSE /\ jobId' = [jobId EXCEPT ![p] = resp.body.id]
            /\ IF resp.body.status = "SUCCESS"
               THEN /\ trace' = Log(p, <<resp, Request("result", ResultUrl(resp.body.id))>>)
                    /\ pc' = [pc EXCEPT ![p] = "result"]
               ELSE /\ trace' = Log(p, <<resp, Request("status", StatusUrl(resp.body.id))>>)
                    /\ pc' = [pc EXCEPT ![p] = "status"]
            /\ UNCHANGED outcome
    /\ UNCHANGED <<config, client, status>>

\* The upload response arrives: uploadFile throws or returns data.id, and
\* parseFile enters the loop with the first checkStatus(jobId).
UploadResponse(p, resp) ==
    /\ pc[p] = "upload"
    /\ IF ~resp.ok
       THEN /\ trace' = Log(p, <<resp>>)
            /\ Settle(p, Rejected(UploadError(resp)))
            /\ UNCHANGED jobId
       ELSE /\ jobId' = [jobId EXCEPT ![p] = resp.body.id]
            /\ trace' = Log(p, <<resp, Request("status", StatusUrl(resp.body.id))>>)
            /\ pc' = [pc EXCEPT ![p] = "status"]
            /\ UNCHANGED outcome
    /\ UNCHANGED <<config, client, status>>

\* A variant that retries a failed status check instead of throwing.
StatusResponseRetry(p, resp) ==
    /\ pc[p] = "status"
    /\ (resp.ok /\ resp.body.status = "PENDING")
          => Cardinality(PendingAnswers(trace[p])) < MaxPending
    /\ IF ~resp.ok
       THEN /\ Len(trace[p]) < 8
            /\ trace' = Log(p, <<resp, Request("status", StatusUrl(jobId[p]))>>)
            /\ UNCHANGED <<status, pc, outcome>>
       ELSE /\ status' = StoreStatus(p, resp.body)
            /\ trace' = Log(p, <<resp, Timer(PollDelayMs)>>)
            /\ pc' = [pc EXCEPT ![p] = "timer"]
            /\ UNCHANGED outcome
    /\ UNCHANGED <<config, client, jobId>>

\* The status response arrives: checkStatus throws or returns the body, which
\* parseFile stores in status before it starts the timer.
StatusResponse(p, resp) ==
    /\ pc[p] = "status"
    \* the environment's bound on the number of PENDING answers
    /\ (resp.ok /\ resp.body.status = "PENDING")
          => Cardinality(PendingAnswers(trace[p])) < MaxPending
    /\ IF ~resp.ok
       THEN /\ trace' = Log(p, <<resp>>)
            /\ Settle(p, Rejected(StatusCheckError(resp)))
            /\ UNCHANGED status
       ELSE /\ status' = StoreStatus(p, resp.body)
            /\ trace' = Log(p, <<resp, Timer(PollDelayMs)>>)
            /\ pc' = [pc EXCEPT ![p] = "timer"]
            /\ UNCHANGED outcome
    /\ UNCHANGED <<config, client, jobId>>

\* A variant whose timer promise is never resolved: the await never resumes.
TimerNeverResolves(p) ==
    /\ pc[p] = "timer"
    /\ FALSE
    /\ UNCHANGED vars

\* The timer fires: the loop condition is evaluated, then parseFile polls
\* again, throws, or calls getMarkdownResult(jobId).
TimerFired(p) ==
    /\ pc[p] = "timer"
    /\ IF LoopCondition(p)
       THEN /\ trace' = Log(p, <<Request("status", StatusUrl(jobId[p]))>>)
            /\ pc' = [pc EXCEPT ![p] = "status"]
            /\ UNCHANGED outcome
       ELSE IF ParseFailed(p)
       THEN /\ Settle(p, Rejected(ParseFailedError(status[p])))
            /\ UNCHANGED trace
       ELSE /\ trace' = Log(p, <<Request("result", ResultUrl(jobId[p]))>>)
            /\ pc' = [pc EXCEPT ![p] = "result"]
            /\ UNCHANGED outcome
    /\ UNCHANGED <<config, client, jobId, status>>

\* The result response arrives: getMarkdownResult throws or returns the body,
\* which parseFile returns.
ResultResponse(p, resp) ==
    /\ pc[p] = "result"
    /\ trace' = Log(p, <<resp>>)
    /\ Settle(p, IF resp.ok THEN Fulfilled(resp.body) ELSE Rejected(ResultFetchError(resp)))
    /\ UNCHANGED <<config, client, jobId, status>>

-----------------------------------------------------------------------------
(* The specifications. *)

InitCalls ==
    /\ client = Unconstructed
    /\ pc = [p \in Calls |-> "idle"]
    /\ jobId = [p \in Calls |-> Undefined]
    /\ status = [p \in Calls |-> NoStatus]
    /\ trace = [p \in Calls |-> <<>>]
    /\ outcome = [p \in Calls |-> Unsettled]

\* One client, constructed from any configuration, and one parseFile call.
Init == config \in Configs /\ InitCalls

Next ==
    \/ Construct
    \/ ParseFile(1)
    \/ \E resp \in UploadResponses : UploadResponse(1, resp)
    \/ \E resp \in StatusResponses : StatusResponse(1, resp)
    \/ TimerFired(1)
    \/ \E resp \in ResultResponses : ResultResponse(1, resp)

Spec == Init /\ [][Next]_vars

\* The same with the scheduling of a run: a started timer fires (the event
\* loop), and every request in flight is answered.
Fairness ==
    /\ WF_vars(TimerFired(1))
    /\ WF_vars(\E resp \in UploadResponses : UploadResponse(1, resp))
    /\ WF_vars(\E resp \in StatusResponses : StatusResponse(1, resp))
    /\ WF_vars(\E resp \in ResultResponses : ResultResponse(1, resp))

SpecFair == Init /\ [][Next]_vars /\ Fairness

\* One client with the default configuration and two concurrent parseFile calls.
InitConc == config = DefaultConfig /\ InitCalls

NextConc ==
    \/ Construct
    \/ \E p \in Calls : ParseFile(p)
    \/ \E p \in Calls, resp \in UploadResponsesConc : UploadResponse(p, resp)
    \/ \E p \in Calls, resp \in StatusResponsesConc : StatusResponse(p, resp)
    \/ \E p \in Calls : TimerFired(p)
    \/ \E p \in Calls, resp \in ResultResponsesConc : ResultResponse(p, resp)

SpecConc == InitConc /\ [][NextConc]_vars

-----------------------------------------------------------------------------
(* parseFile run alone: the trace and the settlement that the sequential   *)
(* code of index.ts:66-80 produces from the responses resps, in order.     *)

Run(tr, out) == [trace |-> tr, outcome |-> out]

RECURSIVE PollAlone(_, _, _)
PollAlone(id, resps, tr) ==
    IF resps = <<>> THEN Run(tr, Unsettled)
    ELSE LET r == Head(resps)
             waited == tr \o <<r, Timer(PollDelayMs)>>
         IN  IF ~r.ok THEN Run(tr \o <<r>>, Rejected(StatusCheckError(r)))
             ELSE IF r.body.status = "PENDING"
             THEN PollAlone(id, Tail(resps), waited \o <<Request("status", StatusUrl(id))>>)
             ELSE IF r.body.status # "SUCCESS"
             THEN Run(waited, Rejected(ParseFailedError(r.body)))
             ELSE LET asked == waited \o <<Request("result", ResultUrl(id))>>
                  IN  IF Tail(resps) = <<>> THEN Run(asked, Unsettled)
                      ELSE LET r2 == Head(Tail(resps))
                           IN  Run(asked \o <<r2>>,
                                   IF r2.ok THEN Fulfilled(r2.body)
                                   ELSE Rejected(ResultFetchError(r2)))

ParseFileAlone(resps) ==
    LET asked == <<Request("upload", UploadUrl)>>
    IN  IF resps = <<>> THEN Run(asked, Unsettled)
        ELSE LET r == Head(resps)
             IN  IF ~r.ok THEN Run(asked \o <<r>>, Rejected(UploadError(r)))
                 ELSE PollAlone(r.body.id, Tail(resps),
                                asked \o <<r, Request("status", StatusUrl(r.body.id))>>)

-----------------------------------------------------------------------------
(* Helpers of the properties. *)

Max(S) == CHOOSE x \in S : \A y \in S : y <= x

IsResponse(e) == e.type = "response"

\* The responses of a trace, in order.
ResponsesOf(tr) == SelectSeq(tr, IsResponse)

IsPrefix(s, t) == Len(s) <= Len(t) /\ SubSeq(t, 1, Len(s)) = s

Count(S) == Cardinality(S)

\* The call has observed a status: the last successful status answer of its trace.
HasObserved(tr) == \E j \in Responses(tr, "status") : tr[j].ok
LastObserved(tr) == tr[Max({j \in Responses(tr, "status") : tr[j].ok})].body

Terminal == {"SUCCESS", "FAILED"}

-----------------------------------------------------------------------------
(* The properties. *)

\* C1: the result endpoint is requested only when the last status answer before
\* the request was a successful response reporting SUCCESS; a call whose trace
\* holds a FAILED answer has no result request.
C1_ResultOnlyAfterSuccess ==
    \A p \in Calls :
        LET tr == trace[p] IN
        /\ \A i \in Requests(tr, "result") :
              LET before == {j \in Responses(tr, "status") : j < i} IN
              /\ before # {}
              /\ tr[Max(before)].ok
              /\ tr[Max(before)].body.status = "SUCCESS"
        /\ (\E j \in Responses(tr, "status") : tr[j].ok /\ tr[j].body.status = "FAILED")
              => Requests(tr, "result") = {}

C1_Witness ==
    /\ Requests(trace[1], "result") # {}
    /\ PendingAnswers(trace[1]) # {}
    /\ outcome[1].state = "fulfilled"

\* C2: once the loop has observed FAILED with error message e and left the
\* timer, parseFile is rejected with the message "Parsing failed: " followed by
\* exactly e, and it is not fulfilled.
C2_FailedCarriesServerError ==
    \A p \in Calls :
        LET tr == trace[p] IN
        (/\ HasObserved(tr)
         /\ LastObserved(tr).status = "FAILED"
         /\ LastObserved(tr).error # Undefined
         /\ pc[p] # "timer")
        => /\ pc[p] = "settled"
           /\ outcome[p] = Rejected("Parsing failed: " \o LastObserved(tr).error)

C2_Witness ==
    /\ HasObserved(trace[1])
    /\ LastObserved(trace[1]) = [status |-> "FAILED", error |-> "bad scan"]
    /\ outcome[1] = Rejected("Parsing failed: bad scan")

\* C3: once a terminal status has been answered after n PENDING answers, the
\* call has issued exactly n+1 status checks and issues no more; after SUCCESS
\* (and its timer) it has issued exactly one result request.
C3_PollsExactlyNPlusOne ==
    \A p \in Calls :
        LET tr == trace[p] IN
        (HasObserved(tr) /\ LastObserved(tr).status \in Terminal)
        => /\ Count(Requests(tr, "status")) = Count(PendingAnswers(tr)) + 1
           /\ Count(Responses(tr, "status")) = Count(PendingAnswers(tr)) + 1
           /\ (LastObserved(tr).status = "SUCCESS" /\ pc[p] # "timer")
                 => Count(Requests(tr, "result")) = 1
           /\ LastObserved(tr).status = "FAILED" => Count(Requests(tr, "result")) = 0

C3_Witness ==
    /\ Count(PendingAnswers(trace[1])) = 2
    /\ HasObserved(trace[1]) /\ LastObserved(trace[1]).status = "SUCCESS"
    /\ Count(Requests(trace[1], "status")) = 3
    /\ Count(Requests(trace[1], "result")) = 1
    /\ outcome[1].state = "fulfilled"

\* C4: a timer is started only after a status check that observed PENDING;
\* after a terminal status no timer is started.
C4_DelayOnlyAfterPending ==
    \A p \in Calls :
        LET tr == trace[p] IN
        \A i \in Timers(tr) :
            /\ i > 1
            /\ tr[i - 1].type = "response" /\ tr[i - 1].op = "status" /\ tr[i - 1].ok
            /\ tr[i - 1].body.status = "PENDING"

\* The error message of a failed response of operation op.
HttpErrorMessage(op, text) ==
    CASE op = "upload" -> "Upload failed: " \o text
      [] op = "status" -> "Status check failed: " \o text
      [] op = "result" -> "Failed to get results: " \o text

\* C5: a non-success HTTP response is the last event of its call: the call is
\* rejected with that operation's error carrying the response's status text,
\* and no request or timer follows.
C5_NoRetryAfterHttpError ==
    \A p \in Calls :
        LET tr == trace[p] IN
        \A i \in DOMAIN tr :
            (tr[i].type = "response" /\ ~tr[i].ok)
            => /\ i = Len(tr)
               /\ pc[p] = "settled"
               /\ outcome[p] = Rejected(HttpErrorMessage(tr[i].op, tr[i].statusText))

C5_Witness ==
    /\ Count(PendingAnswers(trace[1])) = 1
    /\ Len(trace[1]) > 0
    /\ trace[1][Len(trace[1])].type = "response"
    /\ trace[1][Len(trace[1])].op = "status"
    /\ ~trace[1][Len(trace[1])].ok
    /\ outcome[1] = Rejected("Status check failed: Internal Server Error")

\* The upload succeeded and every status answer so far was a successful PENDING.
OnlyPending(p) ==
    /\ pc[p] \in {"status", "timer", "result", "settled"}
    /\ \E j \in Responses(trace[p], "upload") : trace[p][j].ok
    /\ Responses(trace[p], "status") = PendingAnswers(trace[p])

\* C6: while every status answer was PENDING, k of them, the call is not
\* settled, and either the (k+1)-th status check is in flight or the timer is
\* running and its firing issues the (k+1)-th status check.
C6_PollsWithoutBound ==
    \A p \in Calls :
        LET tr == trace[p]
            k  == Count(PendingAnswers(tr))
        IN  OnlyPending(p)
            => /\ outcome[p] = Unsettled
               /\ \/ pc[p] = "status" /\ Count(Requests(tr, "status")) = k + 1
                  \/ /\ pc[p] = "timer"
                     /\ Count(Requests(tr, "status")) = k
                     /\ ENABLED (TimerFired(p) /\ pc'[p] = "status")

C6_Witness ==
    /\ OnlyPending(1)
    /\ Count(PendingAnswers(trace[1])) = MaxPending
    /\ pc[1] = "status"
    /\ Count(Requests(trace[1], "status")) = MaxPending + 1

\* The id field of the successful upload response of a trace.
UploadedId(tr) == tr[Max({j \in Responses(tr, "upload") : tr[j].ok})].body.id

\* C7: every status check and result request carries a non-empty job id in its
\* path, and none is issued when the upload response held a missing or empty id.
C7_JobIdNonEmpty ==
    \A p \in Calls :
        LET tr == trace[p] IN
        \A i \in Requests(tr, "status") \cup Requests(tr, "result") :
            /\ tr[i].url[3] # ""
            /\ ~Falsy(UploadedId(tr))

\* C8: of two concurrent calls, each addresses every status check and result
\* request to the job id of its own upload response, and its trace and its
\* settlement are those of parseFile run alone on the responses it received
\* (while its timer runs, a prefix of them).
C8_ConcurrentCallsIndependent ==
    \A p \in Calls :
        LET tr    == trace[p]
            alone == ParseFileAlone(ResponsesOf(tr))
        IN  pc[p] # "idle"
            => /\ \A i \in Requests(tr, "status") \cup Requests(tr, "result") :
                     tr[i].url[3] = TemplateString(UploadedId(tr))
               /\ IF pc[p] = "timer"
                  THEN IsPrefix(tr, alone.trace) /\ outcome[p] = Unsettled
                  ELSE tr = alone.trace /\ outcome[p] = alone.outcome

C8_Witness ==
    /\ pc[1] = "settled" /\ pc[2] = "timer"
    /\ jobId[1] = "job-1" /\ jobId[2] = "job-2"
    /\ outcome[1].state = "fulfilled"
    /\ Count(PendingAnswers(trace[1])) = 1
    /\ LastObserved(trace[2]).status = "FAILED"

\* C9: the constructor throws exactly when the API key is missing or empty;
\* when it throws there is no usable client (no call ever starts), and with a
\* non-empty key it yields a client.
C9_ConstructorRequiresApiKey ==
    client # Unconstructed
    => IF config.apiKey \in {Undefined, ""}
       THEN /\ ~client.constructed
            /\ client.threw = "API key is required"
            /\ \A p \in Calls : pc[p] = "idle" /\ trace[p] = <<>>
       ELSE client.constructed

C9_Witness ==
    /\ config.apiKey = ""
    /\ client # Unconstructed
    /\ ~client.constructed

\* C10: in the merged headers every header the caller supplied has the
\* caller's value, and every default header the caller did not supply is kept.
C10_CallerHeadersWin ==
    client.constructed
    => LET caller   == CallerHeaders(config.headers)
           defaults == DefaultHeaders(config.apiKey)
       IN  /\ \A k \in DOMAIN caller :
                 k \in DOMAIN client.headers /\ client.headers[k] = caller[k]
           /\ \A k \in DOMAIN defaults \ DOMAIN caller :
                 k \in DOMAIN client.headers /\ client.headers[k] = defaults[k]

\* The upload response of a trace (a call receives at most one).
UploadAnswer(tr) == tr[Max(Responses(tr, "upload"))]

\* C11: after a non-success upload response the call is rejected with
\* "Upload failed: " and the response's status text and holds no job id; after
\* a successful one the job id is exactly the id field of the body, whatever
\* the status field of the body is.
C11_UploadReturnsIdOrFails ==
    \A p \in Calls :
        LET tr == trace[p] IN
        Responses(tr, "upload") # {}
        => IF UploadAnswer(tr).ok
           THEN /\ jobId[p] = UploadAnswer(tr).body.id
                /\ outcome[p] # Rejected("Upload failed: " \o UploadAnswer(tr).statusText)
           ELSE /\ outcome[p] = Rejected("Upload failed: " \o UploadAnswer(tr).statusText)
                /\ jobId[p] = Undefined
                /\ Requests(tr, "status") \cup Requests(tr, "result") = {}

C11_Witness ==
    /\ Responses(trace[1], "upload") # {}
    /\ UploadAnswer(trace[1]).ok
    /\ UploadAnswer(trace[1]).body = [id |-> "job-1", status |-> "FAILED"]
    /\ jobId[1] = "job-1"
    /\ Requests(trace[1], "status") # {}

\* C12: after a successful status response the call holds the body's status
\* and error fields unchanged; the call is rejected with "Status check failed: "
\* and the status text exactly when a status response was not successful.
C12_CheckStatusRoundTrips ==
    \A p \in Calls :
        LET tr   == trace[p]
            bad  == {j \in Responses(tr, "status") : ~tr[j].ok}
        IN  /\ HasObserved(tr)
               => /\ status[p].status = LastObserved(tr).status
                  /\ status[p].error = LastObserved(tr).error
            /\ (bad # {})
               <=> (\E t \in ErrorTexts : outcome[p] = Rejected("Status check failed: " \o t))
            /\ \A j \in bad : outcome[p] = Rejected("Status check failed: " \o tr[j].statusText)

C12_Witness ==
    /\ pc[1] = "timer"
    /\ status[1] = [status |-> "CANCELED", error |-> "bad scan"]
    /\ Count(PendingAnswers(trace[1])) = 1

\* C13: when the result endpoint answers successfully with body r, parseFile
\* is fulfilled with exactly r, the statuses observed were PENDING zero or more
\* times and then SUCCESS, and the result was requested at
\* {baseUrl}/job/{id}/result/markdown for the id of the upload response.
C13_ResolvesWithResultBody ==
    \A p \in Calls :
        LET tr == trace[p] IN
        \A i \in Responses(tr, "result") :
            tr[i].ok
            => /\ outcome[p] = [state |-> "fulfilled", value |-> tr[i].body]
               /\ i = Len(tr)
               /\ tr[i - 1].type = "request" /\ tr[i - 1].op = "result"
               /\ tr[i - 1].url = <<client.baseUrl, "job", TemplateString(UploadedId(tr)),
                                    "result", "markdown">>
               /\ LastObserved(tr).status = "SUCCESS"
               /\ Count(Responses(tr, "status")) = Count(PendingAnswers(tr)) + 1

C13_Witness ==
    /\ Count(PendingAnswers(trace[1])) = 1
    /\ outcome[1] = [state |-> "fulfilled",
                     value |-> [markdown |-> "# Title", job_metadata |-> Metadata(1)]]
    /\ UploadedId(trace[1]) = "job-1"

\* Every request of every call carries the base URL and the merged headers of
\* the client, with each default header whose name the caller did not supply.
RequestsCarryConfig ==
    \A p \in Calls :
        \A i \in {j \in DOMAIN trace[p] : trace[p][j].type = "request"} :
            /\ trace[p][i].url[1] = client.baseUrl
            /\ trace[p][i].headers = client.headers
            /\ \A k \in DOMAIN DefaultHeaders(config.apiKey)
                         \ DOMAIN CallerHeaders(config.headers) :
                  /\ k \in DOMAIN trace[p][i].headers
                  /\ trace[p][i].headers[k] = DefaultHeaders(config.apiKey)[k]

\* C14: no step of any operation changes the base URL or the merged headers of
\* a constructed client, and after every step every request made so far carries
\* those headers, with Authorization: Bearer <apiKey> and accept:
\* application/json unless the caller supplied that header.
C14_ConfigImmutable ==
    [][client.constructed => (client' = client /\ RequestsCarryConfig')]_vars

C14_Witness ==
    /\ client.constructed
    /\ config.headers = RecordHeaders("Authorization" :> "Custom")
    /\ outcome[1].state = "fulfilled"
    /\ \A i \in Requests(trace[1], "upload") \cup Requests(trace[1], "status")
                  \cup Requests(trace[1], "result") :
          trace[1][i].headers =
              ("Authorization" :> "Custom") @@ ("accept" :> "application/json")

\* The order of the requests of a started call: one upload request, first;
\* every status check before the result request; at most one result request,
\* made only after a SUCCESS answer; every status answer before the last is
\* PENDING; a settled call has no request without its response.
RequestOrder(p) ==
    LET tr == trace[p]
        st == Requests(tr, "status")
        rs == Requests(tr, "result")
        an == {j \in Responses(tr, "status") : tr[j].ok}
    IN  pc[p] # "idle"
        => /\ Requests(tr, "upload") = {1}
           /\ \A i \in st \cup rs : \E j \in Responses(tr, "upload") : j < i /\ tr[j].ok
           /\ \A i \in st : \A j \in rs : i < j
           /\ Count(rs) <= 1
           /\ \A j \in rs : HasObserved(tr) /\ LastObserved(tr).status = "SUCCESS"
           /\ \A j \in an : j # Max(an) => tr[j].body.status = "PENDING"
           /\ pc[p] = "settled"
                 => /\ outcome[p] # Unsettled
                    /\ tr[Len(tr)].type # "request"

\* C15: every step leaves each call in the order upload, status checks, then
\* result request or error, and a call that has settled (result fetched or
\* error raised) makes no further request: its trace and outcome stay.
C15_ParseFollowsStateMachine ==
    [][\A p \in Calls :
          /\ RequestOrder(p)'
          /\ pc[p] = "settled"
                => (trace'[p] = trace[p] /\ outcome'[p] = outcome[p] /\ pc'[p] = "settled")
      ]_vars

C15_Witness ==
    /\ pc[1] = "settled"
    /\ outcome[1].state = "fulfilled"
    /\ Count(PendingAnswers(trace[1])) = 2
    /\ Count(Requests(trace[1], "upload")) = 1
    /\ Count(Requests(trace[1], "result")) = 1

\* C16: when a started timer fires, every request is answered and the server
\* answers PENDING only finitely often (at most MaxPending times), a started
\* parseFile call eventually settles: fulfilled with a result or rejected.
C16_EventuallyCompletes ==
    (pc[1] # "idle") ~> (pc[1] = "settled" /\ outcome[1].state \in {"fulfilled", "rejected"})

C16_Witness ==
    /\ pc[1] = "settled"
    /\ Count(PendingAnswers(trace[1])) = MaxPending
    /\ LastObserved(trace[1]).status \in Terminal
    /\ outcome[1].state \in {"fulfilled", "rejected"}

\* C17: once the loop has observed a status other than PENDING and SUCCESS
\* (FAILED with or without an error, or a value outside the three) and left the
\* timer, the call is rejected with "Parsing failed: " and the error field as a
\* template literal prints it; that answer is the last status answer, no status
\* check follows it and no result request is made.
C17_OtherStatusIsFailure ==
    \A p \in Calls :
        LET tr == trace[p] IN
        (HasObserved(tr) /\ LastObserved(tr).status \notin {"PENDING", "SUCCESS"})
        => /\ Count(Requests(tr, "status")) = Count(PendingAnswers(tr)) + 1
           /\ Count(Responses(tr, "status")) = Count(PendingAnswers(tr)) + 1
           /\ Requests(tr, "result") = {}
           /\ pc[p] \in {"timer", "settled"}
           /\ pc[p] = "settled"
                 => outcome[p] =
                       [state |-> "rejected",
                        message |-> "Parsing failed: " \o
                            (IF LastObserved(tr).error = Undefined THEN "undefined"
                             ELSE LastObserved(tr).error)]

C17_Witness ==
    /\ pc[1] = "settled"
    /\ HasObserved(trace[1])
    /\ LastObserved(trace[1]) = [status |-> "CANCELED", error |-> Undefined]
    /\ Count(PendingAnswers(trace[1])) = 1
    /\ outcome[1] = [state |-> "rejected", message |-> "Parsing failed: undefined"]

\* The upload of the call succeeded.
Uploaded(p) == \E j \in Responses(trace[p], "upload") : trace[p][j].ok

\* The call has asked for the result or has failed.
FetchedOrFailed(p) ==
    Requests(trace[p], "result") # {} \/ outcome[p].state = "rejected"

\* The call has failed at index.ts:76: it is rejected and its last event is
\* the timer it awaited, not a response.
FailedByStatus(p) ==
    /\ outcome[p].state = "rejected"
    /\ trace[p][Len(trace[p])].type = "timer"

\* C18 as stated: after a successful upload, a call that has asked for the
\* result or has failed has issued at least one status check and started at
\* least one timer.
C18_PollAndDelayBeforeEnd ==
    \A p \in Calls :
        (Uploaded(p) /\ FetchedOrFailed(p))
        => /\ Requests(trace[p], "status") # {}
           /\ Timers(trace[p]) # {}

\* C18 amended: after a successful upload, whatever status the upload response
\* reports, the next event is a status check; a call that has asked for the
\* result or has failed has issued at least one status check; a call that has
\* asked for the result or has failed on the observed status has started at
\* least one timer before that.
C18_PollBeforeEndDelayBeforeVerdict ==
    \A p \in Calls :
        LET tr == trace[p] IN
        Uploaded(p)
        => /\ Len(tr) >= 3 /\ tr[3].type = "request" /\ tr[3].op = "status"
           /\ FetchedOrFailed(p) => Requests(tr, "status") # {}
           /\ \A i \in Requests(tr, "result") : \E t \in Timers(tr) : t < i
           /\ FailedByStatus(p) => Timers(tr) # {}
           /\ (outcome[p].state = "rejected" /\ ~FailedByStatus(p))
                 => /\ ~tr[Len(tr)].ok
                    /\ Count(Timers(tr)) = Count({j \in Responses(tr, "status") : tr[j].ok})

C18_Witness ==
    /\ Uploaded(1)
    /\ UploadAnswer(trace[1]).body.status = "SUCCESS"
    /\ Requests(trace[1], "result") # {}
    /\ Count(Requests(trace[1], "status")) = 1
    /\ Count(Timers(trace[1])) = 1

=============================================================================
